---- MODULE Spec2Model ----
(* Model of the module lifecycle of src/src/app.rs:                         *)
(* UninitializedAppContext::initialize_modules,                             *)
(* InitializedAppContext::run_all_modules and ::cleanup_finished_modules,   *)
(* together with the tasks they spawn (the blocking execution task and the  *)
(* companion MQTT event-loop task).                                         *)
EXTENDS Integers, Sequences, FiniteSets, TLC

\* ---------------------------------------------------------------- bounds
ExecSlots == 2           \* execution tasks of one module that may be alive at once
LoopSlots == 2           \* companion tasks of one module that may be alive at once

\* ------------------------------------------------------------- constants
ChannelCapacity == 32    \* mpsc::channel(32)

\* the keys of the modules HashMap
Modules == {"modA", "modB"}

VARIABLES
    phase,       \* "uninitialized", "initialized", or "failed" (initialize_modules returned Err)
    order,       \* iteration order of InitializedAppContext.modules (fixed once the map is built)
    config,      \* per module: bytecode compiles, runtime config declares MQTT, bytecode instantiates and exports "start"
    runtime,     \* InitializedAppContext.modules: ModuleData.runtime per module, None or [task, info]
    execTasks,   \* per module: the spawn_blocking tasks that are alive, by handle
    loopTasks,   \* per module: the companion event-loop tasks that are alive, by handle
    cpc,         \* position of the supervisor: "idle" or a point inside cleanup_finished_modules
    idx,         \* cleanup: position of the iterator in order
    cur,         \* cleanup: the ModuleRuntime taken out of the record being reaped
    results,     \* cleanup: the local results vector
    ret,         \* what the last supervisor call returned
    events,      \* cleanup: what has been done so far to the record being reaped, in order
    last,        \* the kind of step that led to this state
    taken,       \* cleanup: the modules whose record this pass has taken, in order
    connLog      \* per module: what the last run_all_modules call did about its MQTT connection

vars == <<phase, order, config, runtime, execTasks, loopTasks, cpc, idx, cur, results,
          ret, events, last, taken, connLog>>

\* Option<ModuleRuntime>::None ; a Some(ModuleRuntime) has task > 0,
\* info = 0 stands for module_mqtt_event_loop_task_info = None
None == [task |-> 0, info |-> 0]

ModuleRuntime(t, i) == [task |-> t, info |-> i]

\* An execution task: state is "running", or the output waiting in its
\* JoinHandle: "ok" (Ok(())), "trap" (Err(Trap)), "joinerr" (the task
\* panicked, the handle yields a JoinError). conn is the outcome of
\* initialize_mqtt_for_module for this run: "none" (not configured), "ok"
\* (the store holds the connection) or "err" (the store holds none).
FreeExec == [state |-> "free", conn |-> "none"]

NewExecTask(c) == [state |-> "running", conn |-> c]

\* A companion task with its control channel: queue = signals waiting in the
\* channel, sent = signals ever sent on it, conn = the outcome of the
\* connection attempt whose event loop it drives. state is "running" or the
\* output waiting in its JoinHandle, "ok" / "err".
FreeLoop == [state |-> "free", queue |-> 0, sent |-> 0, conn |-> "none"]

\* variant of NewLoopTask: the channel of the previous run used again, its
\* stop signal still in it
NewLoopTaskReusedChannel(c) == [state |-> "running", queue |-> 1, sent |-> 1, conn |-> c]

NewLoopTask(c) == [state |-> "running", queue |-> 0, sent |-> 0, conn |-> c]

\* no module has been looked at by a run_all_modules call
NoConn == [m \in Modules |-> "unvisited"]

NoRet == [op |-> "none", status |-> "none", results |-> <<>>]

RECURSIVE Perms(_)
Perms(S) ==
    IF S = {} THEN {<<>>}
    ELSE UNION {{<<x>> \o p : p \in Perms(S \ {x})} : x \in S}

\* a module that does not compile has no "start" to resolve
Configs == {c \in [valid : BOOLEAN, mqtt : BOOLEAN, start : BOOLEAN] : c.start => c.valid}

Init ==
    /\ phase = "uninitialized"
    /\ order = <<>>
    /\ config \in [Modules -> Configs]
    /\ runtime = <<>>
    /\ execTasks = [m \in Modules |-> [i \in 1..ExecSlots |-> FreeExec]]
    /\ loopTasks = [m \in Modules |-> [j \in 1..LoopSlots |-> FreeLoop]]
    /\ cpc = "idle"
    /\ idx = 0
    /\ cur = None
    /\ results = <<>>
    /\ ret = NoRet
    /\ events = <<>>
    /\ last = "new"
    /\ taken = <<>>
    /\ connLog = NoConn

\* ---------------------------------------------------- initialize_modules

\* variant of Compiles: a compilation error goes unnoticed
CompilesAlways(cfg) == TRUE

\* line 103: Module::from_binary(&engine, &module.bytes)?
Compiles(cfg) == cfg.valid

\* lines 93-130: every module is compiled and linked; collect() into a
\* Result yields the map only if every element is Ok. self is consumed.
InitializeModules ==
    /\ phase = "uninitialized"
    /\ IF \A m \in Modules : Compiles(config[m])
       THEN /\ phase' = "initialized"
            /\ runtime' = [m \in Modules |-> None]
            /\ order' \in Perms(Modules)
            /\ ret' = [op |-> "initialize", status |-> "ok", results |-> <<>>]
       ELSE /\ phase' = "failed"
            /\ ret' = [op |-> "initialize", status |-> "err", results |-> <<>>]
            /\ UNCHANGED <<runtime, order>>
    /\ last' = "initialize"
    /\ UNCHANGED <<config, execTasks, loopTasks, cpc, idx, cur, results, events, taken, connLog>>

\* ------------------------------------------------------- run_all_modules

\* variants of NeedsStart: the guard left out; a degraded run started again
NeedsStartAlways(rt) == TRUE

NeedsStartOrDegraded(rt) == rt = None \/ rt.info = 0

\* line 170: if let None = module_data.runtime
NeedsStart(rt) == rt = None

\* lines 175-177: initialize_mqtt_for_module returns Some(_) iff MQTT is configured
MqttConfigured(cfg) == cfg.mqtt

\* variant of SpawnsLoop: the companion spawned only once "start" is resolved
SpawnsLoopIfStartable(cfg, c) == MqttConfigured(cfg) /\ c = "ok" /\ cfg.start

\* variant of SpawnsLoop: the companion spawned whatever the connection outcome
SpawnsLoopAnyOutcome(cfg, c) == MqttConfigured(cfg)

\* lines 178-205: a companion is spawned only in the Ok arm
SpawnsLoop(cfg, c) == MqttConfigured(cfg) /\ c = "ok"

\* variant of Instantiates: a missing "start" export goes unnoticed
InstantiatesAlways(cfg) == TRUE

\* lines 210-213: instantiate(..)? and get_typed_func(.., "start")?
Instantiates(cfg) == cfg.start

\* variant of BodyResult: a failed connection propagated with `?`
BodyResultFatalConn(cfg, c) ==
    IF Instantiates(cfg) /\ ~(MqttConfigured(cfg) /\ c = "err") THEN "ok" ELSE "err"

\* lines 175-213: the only `?` of the loop body are those of instantiate and
\* get_typed_func; the Err arm of the connection match (lines 201-204) prints
BodyResult(cfg, c) == IF Instantiates(cfg) THEN "ok" ELSE "err"

HasFree(tasks) == \E i \in DOMAIN tasks : tasks[i].state = "free"

FreeSlot(tasks) == CHOOSE i \in DOMAIN tasks :
    /\ tasks[i].state = "free"
    /\ \A k \in DOMAIN tasks : tasks[k].state = "free" => i <= k

\* One iteration of the loop body (lines 170-224) for module m, where c is
\* the outcome of establishing the MQTT connection should it be attempted.
\* st carries the fields the loop mutates and the status of the call
\* ("full": the model has no slot left for a task the code would spawn).
RunModule(st, m, c) ==
    IF ~NeedsStart(st.runtime[m]) THEN [st EXCEPT !.conn[m] = "skip"]
    ELSE
        LET cfg == config[m]
            conn == IF MqttConfigured(cfg) THEN c ELSE "none"
            spawn == SpawnsLoop(cfg, c)
        IN  IF spawn /\ ~HasFree(st.loopTasks[m]) THEN [st EXCEPT !.status = "full"]
            ELSE
            LET j == IF spawn THEN FreeSlot(st.loopTasks[m]) ELSE 0
                st0 == [st EXCEPT !.conn[m] = conn]
                st1 == IF spawn THEN [st0 EXCEPT !.loopTasks[m][j] = NewLoopTask(c)] ELSE st0
            IN  IF BodyResult(cfg, c) = "err" THEN [st1 EXCEPT !.status = "err"]
                ELSE IF ~HasFree(st1.execTasks[m]) THEN [st EXCEPT !.status = "full"]
                ELSE LET i == FreeSlot(st1.execTasks[m])
                     IN  [st1 EXCEPT !.execTasks[m][i] = NewExecTask(conn),
                                     !.runtime[m] = ModuleRuntime(i, j)]

\* lines 169-227: the for loop; `?` returns at the first failing module
RECURSIVE RunFrom(_, _, _)
RunFrom(st, i, connOut) ==
    IF i > Len(order) THEN st
    ELSE LET st1 == RunModule(st, order[i], connOut[order[i]])
         IN  IF st1.status # "ok" THEN st1 ELSE RunFrom(st1, i + 1, connOut)

RunResult(connOut) ==
    RunFrom([runtime |-> runtime, execTasks |-> execTasks, loopTasks |-> loopTasks,
             status |-> "ok", conn |-> NoConn], 1, connOut)

RunAllModules ==
    /\ phase = "initialized"
    /\ cpc = "idle"
    /\ \E connOut \in [Modules -> {"ok", "err"}] :
        LET st == RunResult(connOut)
        IN  /\ st.status # "full"
            /\ runtime' = st.runtime
            /\ execTasks' = st.execTasks
            /\ loopTasks' = st.loopTasks
            /\ ret' = [op |-> "run", status |-> st.status, results |-> <<>>]
            /\ connLog' = st.conn
    /\ last' = "run"
    /\ taken' = <<>>
    /\ UNCHANGED <<phase, order, config, cpc, idx, cur, results, events>>

\* ------------------------------------------------------------ the tasks

\* the module the cleanup iterator is at
CurMod == order[idx]

InReap == cpc \in {"send", "awaitLoop", "collect"}

\* the JoinHandle of execution task i of module m is still owned by the
\* context: inside the module's record, or inside the runtime cleanup took
HeldExec(m, i) ==
    \/ m \in DOMAIN runtime /\ runtime[m].task = i
    \/ InReap /\ CurMod = m /\ cur.task = i

\* the same for companion j of module m
Held(m, j) ==
    \/ m \in DOMAIN runtime /\ runtime[m].info = j
    \/ InReap /\ CurMod = m /\ cur.info = j

\* line 216: the blocking task runs wasm_entrypoint.call to completion:
\* Ok(()), Err(Trap), or a panic. tokio discards the output of a task whose
\* handle was dropped.
ExecFinish(m, i, out) ==
    /\ execTasks[m][i].state = "running"
    /\ execTasks' = [execTasks EXCEPT ![m][i] =
                        IF HeldExec(m, i) THEN [@ EXCEPT !.state = out] ELSE FreeExec]
    /\ last' = "task"
    /\ UNCHANGED <<phase, order, config, runtime, loopTasks, cpc, idx, cur, results, ret, events, taken, connLog>>

\* mqtt_event_loop_task: the stop signal arrives and the loop terminates
LoopStop(m, j) ==
    /\ loopTasks[m][j].state = "running"
    /\ loopTasks[m][j].queue > 0
    /\ loopTasks' = [loopTasks EXCEPT ![m][j] =
                        IF Held(m, j) THEN [@ EXCEPT !.state = "ok", !.queue = @ - 1] ELSE FreeLoop]
    /\ last' = "task"
    /\ UNCHANGED <<phase, order, config, runtime, execTasks, cpc, idx, cur, results, ret, events, taken, connLog>>

\* mqtt_event_loop_task: the connection is exhausted (Ok) or fails (Err) and
\* the loop terminates by itself; its receiver is dropped with it
LoopTerminate(m, j, out) ==
    /\ loopTasks[m][j].state = "running"
    /\ loopTasks' = [loopTasks EXCEPT ![m][j] =
                        IF Held(m, j) THEN [@ EXCEPT !.state = out] ELSE FreeLoop]
    /\ last' = "task"
    /\ UNCHANGED <<phase, order, config, runtime, execTasks, cpc, idx, cur, results, ret, events, taken, connLog>>

\* --------------------------------------------- cleanup_finished_modules

\* variant of IsFinished: the check left out
IsFinishedAlways(t) == TRUE

\* line 141: JoinHandle::is_finished
IsFinished(t) == t.state # "running"

\* variant of Reapable: any record that is Some is reaped
ReapableAny(m) == runtime[m] # None

\* lines 140-141: the record is reaped iff it is Some and its task is finished
Reapable(m) ==
    /\ runtime[m] # None
    /\ IsFinished(execTasks[m][runtime[m].task])

\* variant of HasCompanion: the companion shutdown skipped
HasCompanionNever(rt) == FALSE

\* lines 147-149: if let Some(info) = runtime.module_mqtt_event_loop_task_info
HasCompanion(rt) == rt.info # 0

\* the receiver of a control channel lives inside the event-loop task and is
\* dropped when that task ends; Sender::send then returns an error
ReceiverGone(lt) == lt.state # "running"

\* variant of ErrReturn: the results gathered so far handed out with the error
ErrReturnPartial(rs) == [op |-> "cleanup", status |-> "err", results |-> rs]

\* lines 153, 155, 160: `?` returns the error alone; the local results
\* vector rs is dropped
ErrReturn(rs) == [op |-> "cleanup", status |-> "err", results |-> <<>>]

\* variants of JoinFails: a trap propagated like a JoinError; a JoinError swallowed
JoinFailsOnTrap(t) == t.state \in {"joinerr", "trap"}

JoinFailsNever(t) == FALSE

\* line 160: module_task_handle.await? fails iff the task panicked; a
\* Result<(), Trap> of either kind is the Ok value of the JoinHandle
JoinFails(t) == t.state = "joinerr"

\* variant of Collected: only successes are kept
CollectedOnlyOk(rs, m, out) == IF out = "ok" THEN Append(rs, [mod |-> m, res |-> out]) ELSE rs

\* line 160: results.push(..)
Collected(rs, m, out) == Append(rs, [mod |-> m, res |-> out])

\* a `?` inside the pass: the call returns Err, dropping results and cur
CleanupFail ==
    /\ cpc' = "idle"
    /\ idx' = 0
    /\ cur' = None
    /\ results' = <<>>
    /\ ret' = ErrReturn(results)

\* lines 134-137: the call begins with an empty results vector
CleanupBegin ==
    /\ phase = "initialized"
    /\ cpc = "idle"
    /\ cpc' = "visit"
    /\ idx' = 1
    /\ results' = <<>>
    /\ ret' = NoRet
    /\ events' = <<>>
    /\ last' = "cleanup"
    /\ taken' = <<>>
    /\ connLog' = NoConn
    /\ UNCHANGED <<phase, order, config, runtime, execTasks, loopTasks, cur>>

\* lines 139-146: next element of the iteration; a finished runtime is taken
CleanupVisit ==
    /\ cpc = "visit"
    /\ idx <= Len(order)
    /\ IF Reapable(CurMod)
       THEN /\ cur' = runtime[CurMod]
            /\ runtime' = [runtime EXCEPT ![CurMod] = None]
            /\ cpc' = IF HasCompanion(runtime[CurMod]) THEN "send" ELSE "collect"
            /\ idx' = idx
            /\ events' = <<"take">>
            /\ taken' = Append(taken, CurMod)
       ELSE /\ idx' = idx + 1
            /\ UNCHANGED <<cur, runtime, cpc, events, taken>>
    /\ last' = "cleanup"
    /\ UNCHANGED <<phase, order, config, execTasks, loopTasks, results, ret, connLog>>

\* lines 150-153: runtime_event_sender.send(RuntimeTaskStop).await?
\* fails when the receiver is gone, waits while the channel is full.
\* On failure the taken runtime is dropped with both its handles.
CleanupSend ==
    /\ cpc = "send"
    /\ LET m == CurMod
           j == cur.info
       IN  IF ReceiverGone(loopTasks[m][j])
           THEN /\ CleanupFail
                /\ loopTasks' = [loopTasks EXCEPT ![m][j] = FreeLoop]
                /\ execTasks' = [execTasks EXCEPT ![m][cur.task] = FreeExec]
                /\ UNCHANGED events
           ELSE /\ loopTasks[m][j].queue < ChannelCapacity
                /\ loopTasks' = [loopTasks EXCEPT ![m][j].queue = @ + 1,
                                                  ![m][j].sent = @ + 1]
                /\ cpc' = "awaitLoop"
                /\ events' = Append(events, "send")
                /\ UNCHANGED <<idx, cur, results, ret, execTasks>>
    /\ last' = "cleanup"
    /\ UNCHANGED <<phase, order, config, runtime, taken, connLog>>

\* lines 155-157: task_handle.await? ; an Err(e) of the loop is only printed
CleanupAwaitLoop ==
    /\ cpc = "awaitLoop"
    /\ LET m == CurMod
           j == cur.info
       IN  /\ loopTasks[m][j].state # "running"
           /\ loopTasks' = [loopTasks EXCEPT ![m][j] = FreeLoop]
    /\ cpc' = "collect"
    /\ events' = Append(events, "join")
    /\ last' = "cleanup"
    /\ UNCHANGED <<phase, order, config, runtime, execTasks, idx, cur, results, ret, taken, connLog>>

\* line 160: results.push(runtime.module_task_handle.await?)
CleanupCollect ==
    /\ cpc = "collect"
    /\ LET m == CurMod
           t == execTasks[m][cur.task]
       IN  /\ IsFinished(t)
           /\ execTasks' = [execTasks EXCEPT ![m][cur.task] = FreeExec]
           /\ IF JoinFails(t)
              THEN CleanupFail /\ UNCHANGED events
              ELSE /\ results' = Collected(results, m, t.state)
                   /\ cur' = None
                   /\ idx' = idx + 1
                   /\ cpc' = "visit"
                   /\ events' = Append(events, "collect")
                   /\ UNCHANGED ret
    /\ last' = "cleanup"
    /\ UNCHANGED <<phase, order, config, runtime, loopTasks, taken, connLog>>

\* line 165: Ok(results)
CleanupReturn ==
    /\ cpc = "visit"
    /\ idx > Len(order)
    /\ cpc' = "idle"
    /\ idx' = 0
    /\ ret' = [op |-> "cleanup", status |-> "ok", results |-> results]
    /\ results' = <<>>
    /\ last' = "cleanup"
    /\ UNCHANGED <<phase, order, config, runtime, execTasks, loopTasks, cur, events, taken, connLog>>

Next ==
    \/ InitializeModules
    \/ RunAllModules
    \/ \E m \in Modules, i \in 1..ExecSlots, out \in {"ok", "trap", "joinerr"} : ExecFinish(m, i, out)
    \/ \E m \in Modules, j \in 1..LoopSlots : LoopStop(m, j)
    \/ \E m \in Modules, j \in 1..LoopSlots, out \in {"ok", "err"} : LoopTerminate(m, j, out)
    \/ CleanupBegin
    \/ CleanupVisit
    \/ CleanupSend
    \/ CleanupAwaitLoop
    \/ CleanupCollect
    \/ CleanupReturn

Spec == Init /\ [][Next]_vars

TypeOK ==
    /\ phase \in {"uninitialized", "initialized", "failed"}
    /\ cpc \in {"idle", "visit", "send", "awaitLoop", "collect"}
    /\ \A m \in DOMAIN runtime : runtime[m].task \in 0..ExecSlots /\ runtime[m].info \in 0..LoopSlots

\* the driver of the round trip: run_all_modules is called once, right
\* after initialization, and cleanup_finished_modules repeatedly afterwards
RunOnce == ret.op = "initialize" /\ RunAllModules

NextOnce ==
    \/ InitializeModules
    \/ RunOnce
    \/ \E m \in Modules, i \in 1..ExecSlots, out \in {"ok", "trap", "joinerr"} : ExecFinish(m, i, out)
    \/ \E m \in Modules, j \in 1..LoopSlots : LoopStop(m, j)
    \/ \E m \in Modules, j \in 1..LoopSlots, out \in {"ok", "err"} : LoopTerminate(m, j, out)
    \/ CleanupBegin
    \/ CleanupVisit
    \/ CleanupSend
    \/ CleanupAwaitLoop
    \/ CleanupCollect
    \/ CleanupReturn

\* the driver keeps calling cleanup and each call runs on; the scheduler runs
\* an event loop whose stop signal is waiting
RoundTripSpec ==
    /\ Init
    /\ [][NextOnce]_vars
    /\ WF_vars(CleanupBegin)
    /\ WF_vars(CleanupVisit)
    /\ WF_vars(CleanupSend)
    /\ WF_vars(CleanupAwaitLoop)
    /\ WF_vars(CleanupCollect)
    /\ WF_vars(CleanupReturn)
    /\ \A m \in Modules, j \in 1..LoopSlots : WF_vars(LoopStop(m, j))

\* ------------------------------------------------------------ properties

Ctx == DOMAIN runtime

Running(m) == m \in Ctx /\ runtime[m] # None

Idle(m) == m \in Ctx /\ runtime[m] = None

RunningTasks(m) == {i \in 1..ExecSlots : execTasks[m][i].state = "running"}

LiveExec(m) == {i \in 1..ExecSlots : execTasks[m][i].state # "free"}

LiveLoops(m) == {j \in 1..LoopSlots : loopTasks[m][j].state # "free"}

\* C1: every module has at most one runtime record and at most one
\* execution task that has not finished, that task being the one its record
\* holds; an execution task is spawned for a module only in a step that
\* finds the module's runtime None.
C1_AtMostOneExecution ==
    /\ [](\A m \in Modules :
            /\ Cardinality(RunningTasks(m)) <= 1
            /\ \A i \in RunningTasks(m) : Running(m) /\ runtime[m].task = i)
    /\ [][\A m \in Modules : \A i \in 1..ExecSlots :
            (execTasks[m][i].state = "free" /\ execTasks'[m][i].state # "free")
                => (last' = "run" /\ runtime[m] = None /\ runtime'[m].task = i)]_vars

\* a run_all_modules call has just returned with every module Running, one
\* of them started by an earlier call (its task has already finished)
C1_Witness ==
    /\ last = "run"
    /\ \A m \in Modules : Running(m)
    /\ \E m \in Modules : execTasks[m][runtime[m].task].state = "ok"
    /\ \E m \in Modules : execTasks[m][runtime[m].task].state = "running"

\* C2 (as claimed): when a module's "start" cannot be resolved, the call
\* returns the error and every other module that was idle when the call
\* began is started by that call.
C2_OthersStillStarted ==
    [][(last' = "run" /\ ret'.status = "err")
        => \A m \in Modules : (runtime[m] = None /\ config[m].start) => runtime'[m] # None]_vars

\* C3: a module whose instantiation or "start" resolution fails is never
\* Running and never has an execution task, and every run_all_modules call
\* made while such a module exists returns an error.
C3_FailedStartNeverRunning ==
    /\ [](\A m \in Ctx : ~config[m].start => (runtime[m] = None /\ LiveExec(m) = {}))
    /\ [][(last' = "run" /\ \E m \in Modules : ~config[m].start) => ret'.status = "err"]_vars

\* a call returned the error of a module without "start" while another
\* module is Running
C3_Witness ==
    /\ last = "run"
    /\ ret.status = "err"
    /\ \E m \in Modules : ~config[m].start /\ runtime[m] = None
    /\ \E m \in Modules : Running(m)

\* C4: a stop signal is sent on a companion's channel only by cleanup, for
\* the runtime it took after finding the execution task finished; while a
\* module's execution has not finished no stop signal has been sent to its
\* companion and its record does not change.
C4_StopOnlyAfterFinish ==
    /\ [](\A m \in Modules :
            (Running(m) /\ execTasks[m][runtime[m].task].state = "running" /\ runtime[m].info # 0)
                => loopTasks[m][runtime[m].info].sent = 0)
    /\ [][\A m \in Modules :
            /\ \A j \in 1..LoopSlots :
                loopTasks'[m][j].sent > loopTasks[m][j].sent
                    => /\ cpc = "send" /\ CurMod = m /\ cur.info = j
                       /\ runtime[m] = None
                       /\ execTasks[m][cur.task].state \in {"ok", "trap", "joinerr"}
            /\ (Running(m) /\ execTasks[m][runtime[m].task].state = "running")
                    => runtime'[m] = runtime[m]]_vars

\* the stop signal of one module has been sent while another module, with a
\* companion, is still executing
C4_Witness ==
    /\ cpc = "awaitLoop"
    /\ loopTasks[CurMod][cur.info].sent = 1
    /\ \E m \in Modules :
        /\ Running(m)
        /\ runtime[m].info # 0
        /\ execTasks[m][runtime[m].task].state = "running"

\* C5: whenever cleanup collects the result of a module that has a
\* companion, it has before that, in this order, removed the record, sent
\* the stop signal and awaited the companion; each of these steps finds the
\* earlier ones done.
C5_ReapOrder ==
    /\ [](/\ cpc = "send" => (runtime[CurMod] = None /\ events = <<"take">>
                                /\ loopTasks[CurMod][cur.info].sent = 0)
          /\ cpc = "awaitLoop" => (runtime[CurMod] = None /\ events = <<"take", "send">>
                                /\ loopTasks[CurMod][cur.info].sent = 1)
          /\ (cpc = "collect" /\ cur.info # 0) => events = <<"take", "send", "join">>)
    /\ [][(Len(results') > Len(results) /\ cur.info # 0)
            => /\ events' = <<"take", "send", "join", "collect">>
               /\ runtime'[CurMod] = None
               /\ loopTasks[CurMod][cur.info].state = "free"]_vars

\* the result of a module with a companion has just been collected
C5_Witness ==
    /\ cpc = "visit"
    /\ Len(results) > 0
    /\ events = <<"take", "send", "join", "collect">>

\* C6 (as claimed): an event loop that ended, with an error or not, before
\* the stop signal is sent never makes cleanup return an error.
C6_LoopOutcomeNeverFatal ==
    [][(cpc = "send" /\ loopTasks[CurMod][cur.info].state \in {"ok", "err"})
        => ~(cpc' = "idle" /\ ret'.status = "err")]_vars

\* C7 (as claimed): with run_all_modules called once and cleanup called
\* repeatedly, a module running with a companion whose "start" has returned
\* eventually is Idle with exactly one success result returned for it.
C7_RoundTrip ==
    \A m \in Modules :
        [](( /\ Running(m)
             /\ runtime[m].info # 0
             /\ execTasks[m][runtime[m].task].state = "ok" )
            => <>( /\ Idle(m)
                   /\ ret.op = "cleanup"
                   /\ ret.status = "ok"
                   /\ Cardinality({k \in DOMAIN ret.results : ret.results[k].mod = m}) = 1
                   /\ \A k \in DOMAIN ret.results :
                        ret.results[k].mod = m => ret.results[k].res = "ok" ))

\* C8: a run_all_modules call leaves the record and the tasks of every
\* module that is Running as they are, and after any call a module has
\* exactly one execution task if it is Running and none otherwise.
C8_RunningUntouched ==
    [][last' = "run" =>
        \A m \in Modules :
            /\ runtime[m] # None =>
                /\ runtime'[m] = runtime[m]
                /\ execTasks'[m] = execTasks[m]
                /\ loopTasks'[m] = loopTasks[m]
            /\ Cardinality(LiveExec(m)') = IF runtime'[m] # None THEN 1 ELSE 0]_vars

\* a call has just returned while a module started by an earlier call (its
\* task has finished) is still Running, with its companion
C8_Witness ==
    /\ last = "run"
    /\ \E m \in Modules :
        /\ Running(m)
        /\ runtime[m].info # 0
        /\ execTasks[m][runtime[m].task].state = "trap"

\* C9: every companion task that exists belongs to a module whose
\* configuration declares MQTT and drives a connection that was established;
\* a record holds a MessagingLoopInfo only for such a companion and only
\* when the run's store holds the connection.
C9_CompanionOnlyIfConnected ==
    \A m \in Modules :
        /\ \A j \in LiveLoops(m) : config[m].mqtt /\ loopTasks[m][j].conn = "ok"
        /\ ~config[m].mqtt => LiveLoops(m) = {}
        /\ (Running(m) /\ runtime[m].info # 0)
            => /\ runtime[m].info \in LiveLoops(m)
               /\ execTasks[m][runtime[m].task].conn = "ok"

\* one module runs with a companion, another, without MQTT configured,
\* runs without one
C9_Witness ==
    /\ \E m \in Modules : Running(m) /\ runtime[m].info # 0
    /\ \E m \in Modules : Running(m) /\ ~config[m].mqtt /\ runtime[m].info = 0

\* C10: a run whose connection attempt failed has no MessagingLoopInfo, and
\* cleanup goes from taking its record straight to collecting its result;
\* run_all_modules returns an error only if some module lacks "start", and
\* a call that returns Ok leaves every module Running.
C10_DegradedStart ==
    /\ [](/\ \A m \in Modules :
                (Running(m) /\ execTasks[m][runtime[m].task].conn = "err")
                    => (runtime[m].info = 0 /\ LiveLoops(m) = {})
          /\ (InReap /\ execTasks[CurMod][cur.task].conn = "err")
                => (cpc = "collect" /\ events = <<"take">> /\ LiveLoops(CurMod) = {}))
    /\ [][last' = "run" =>
            /\ ret'.status = "err" <=> \E m \in Modules : ~config[m].start
            /\ ret'.status = "ok" => \A m \in Modules : runtime'[m] # None]_vars

\* cleanup is collecting the result of a run whose connection attempt failed
C10_Witness ==
    /\ cpc = "collect"
    /\ config[CurMod].mqtt
    /\ execTasks[CurMod][cur.task].conn = "err"
    /\ cur.info = 0

\* the modules of the entries of a results vector, in order
ResultMods(rs) == [k \in DOMAIN rs |-> rs[k].mod]

\* C11: cleanup takes the record of a module it visits exactly when the
\* record is Some and its execution task has finished; a pass that returns
\* Ok returns one result for each module it took, in the order it took
\* them, and none for any other module, and every module it took is Idle
\* while that return value stands.
C11_OneResultPerReaped ==
    /\ []((ret.op = "cleanup" /\ ret.status = "ok") =>
            /\ ResultMods(ret.results) = taken
            /\ \A k \in DOMAIN taken : \A l \in DOMAIN taken : taken[k] = taken[l] => k = l
            /\ \A k \in DOMAIN taken : runtime[taken[k]] = None)
    /\ [][(cpc = "visit" /\ last' = "cleanup" /\ idx <= Len(order)) =>
            LET m == order[idx]
                finished == runtime[m] # None /\ execTasks[m][runtime[m].task].state # "running"
            IN  /\ finished => (taken' = Append(taken, m) /\ runtime'[m] = None)
                /\ ~finished => (taken' = taken /\ results' = results /\ idx' = idx + 1)]_vars

\* one pass has returned two results, one for a module without MQTT and
\* one for a module with a companion, and both modules are Idle
C11_Witness ==
    /\ ret.op = "cleanup"
    /\ ret.status = "ok"
    /\ Len(ret.results) = 2
    /\ \E m \in Modules : ~config[m].mqtt
    /\ \E m \in Modules : config[m].mqtt
    /\ \A m \in Modules : Idle(m)

\* C12: when cleanup collects an execution that trapped, the step does not
\* return an error: it appends a "trap" entry for the module, which differs
\* from a success entry, and carries on with the module Idle; the entries
\* cleanup returns are the outcomes of the executions, "ok" or "trap".
C12_TrapIsAResult ==
    /\ [](\A k \in DOMAIN ret.results : ret.results[k].res \in {"ok", "trap"})
    /\ [][(cpc = "collect" /\ last' = "cleanup" /\ execTasks[CurMod][cur.task].state = "trap") =>
            /\ results' = Append(results, [mod |-> CurMod, res |-> "trap"])
            /\ [mod |-> CurMod, res |-> "trap"] # [mod |-> CurMod, res |-> "ok"]
            /\ cpc' = "visit"
            /\ ret' = ret
            /\ runtime'[CurMod] = None]_vars

\* a pass has returned Ok with the trap of a module among its results
C12_Witness ==
    /\ ret.op = "cleanup"
    /\ ret.status = "ok"
    /\ \E k \in DOMAIN ret.results : ret.results[k].res = "trap" /\ Idle(ret.results[k].mod)

\* C13: a module's record changes only from None to Some, in a
\* run_all_modules step, or from Some to None, in the cleanup step that
\* visits the module and finds its execution task finished; task steps and
\* all other steps leave it as it is.
C13_IdleRunningIdle ==
    [][\A m \in Ctx :
        runtime'[m] # runtime[m] =>
            \/ /\ runtime[m] = None
               /\ runtime'[m] # None
               /\ last' = "run"
            \/ /\ runtime[m] # None
               /\ runtime'[m] = None
               /\ last' = "cleanup"
               /\ cpc = "visit"
               /\ order[idx] = m
               /\ execTasks[m][runtime[m].task].state \in {"ok", "trap", "joinerr"}]_vars

\* a module has gone from Idle to Running and, reaped by a pass that has
\* returned, back to Idle, while the other module is still executing
C13_Witness ==
    /\ ret.op = "cleanup"
    /\ ret.status = "ok"
    /\ Len(taken) = 1
    /\ Idle(taken[1])
    /\ \E m \in Modules : Running(m) /\ execTasks[m][runtime[m].task].state = "running"

\* C14: a cleanup step that visits a module that is Idle, or whose
\* execution task has not finished, only moves on to the next module; and no
\* cleanup step changes the record, the tasks or the channel of a module
\* other than the one whose finished record it is reaping.
C14_CleanupSkips ==
    [][last' = "cleanup" =>
        /\ (cpc = "visit" /\ idx <= Len(order)
              /\ (runtime[order[idx]] = None
                    \/ execTasks[order[idx]][runtime[order[idx]].task].state = "running"))
            => /\ runtime' = runtime
               /\ execTasks' = execTasks
               /\ loopTasks' = loopTasks
               /\ results' = results
               /\ taken' = taken
               /\ cpc' = "visit"
               /\ idx' = idx + 1
        /\ \A m \in Modules :
            (cpc = "idle" \/ idx > Len(order) \/ order[idx] # m)
                => /\ runtime'[m] = runtime[m]
                   /\ execTasks'[m] = execTasks[m]
                   /\ loopTasks'[m] = loopTasks[m]
                   /\ \A k \in DOMAIN results' : k > Len(results) => results'[k].mod # m]_vars

\* a pass that reaped one module has returned while the other module, which
\* has a companion and was still executing, is Running with no stop signal sent
C14_Witness ==
    /\ ret.op = "cleanup"
    /\ ret.status = "ok"
    /\ Len(ret.results) = 1
    /\ \E m \in Modules :
        /\ Running(m)
        /\ runtime[m].info # 0
        /\ execTasks[m][runtime[m].task].state = "running"
        /\ loopTasks[m][runtime[m].info].sent = 0

C16_InitializeAllOrNothing ==
    /\ [](/\ phase = "initialized" =>
                /\ \A m \in Modules : config[m].valid
                /\ DOMAIN runtime = Modules
                /\ Len(order) = Cardinality(Modules)
                /\ \A m \in Modules : Cardinality({k \in DOMAIN order : order[k] = m}) = 1
          /\ phase = "failed" =>
                /\ \E m \in Modules : ~config[m].valid
                /\ ret = [op |-> "initialize", status |-> "err", results |-> <<>>]
          /\ phase # "initialized" =>
                /\ runtime = <<>>
                /\ cpc = "idle"
                /\ \A m \in Modules : LiveExec(m) = {} /\ LiveLoops(m) = {})
    /\ [][/\ phase = "initialized" => phase' = "initialized"
          /\ phase = "failed" => (phase' = "failed" /\ UNCHANGED vars)
          /\ (phase = "uninitialized" /\ phase' = "initialized")
                => (ret'.status = "ok" /\ \A m \in Modules : runtime'[m] = None)]_vars

\* initialization has failed although one of the modules is valid
C16_Witness ==
    /\ phase = "failed"
    /\ \E m \in Modules : config[m].valid /\ config[m].start
    /\ \E m \in Modules : ~config[m].valid

\* companion j of module m is alive but no record and no cleanup pass holds
\* its MqttEventLoopTaskInfo
Orphan(m, j) == loopTasks[m][j].state # "free" /\ ~Held(m, j)

\* C17: a run_all_modules call that establishes the connection of a module
\* whose "start" cannot be resolved spawns a companion and returns the error
\* with the module's record None; a companion that no record holds has been
\* sent no stop signal, is never held later, and no cleanup step awaits it
\* or sends to it: only the task itself ends it.
C17_OrphanCompanion ==
    /\ [](\A m \in Modules : \A j \in 1..LoopSlots :
            Orphan(m, j) => (loopTasks[m][j].sent = 0 /\ loopTasks[m][j].queue = 0
                                /\ loopTasks[m][j].state = "running" /\ ~config[m].start))
    /\ [][\A m \in Modules :
            /\ (last' = "run" /\ connLog'[m] = "ok" /\ ~config[m].start)
                => /\ ret'.status = "err"
                   /\ runtime'[m] = None
                   /\ LiveExec(m)' = {}
                   /\ \E j \in 1..LoopSlots :
                        loopTasks[m][j].state = "free" /\ Orphan(m, j)'
            /\ \A j \in 1..LoopSlots :
                Orphan(m, j) =>
                    \/ loopTasks'[m][j] = loopTasks[m][j] /\ Orphan(m, j)'
                    \/ loopTasks'[m][j].state = "free" /\ last' = "task"]_vars

\* a cleanup pass has returned while the companion of a module that could
\* not be started is still running, held by no record
C17_Witness ==
    /\ ret.op = "cleanup"
    /\ ret.status = "ok"
    /\ Len(ret.results) = 1
    /\ \E m \in Modules : \E j \in 1..LoopSlots : Idle(m) /\ Orphan(m, j)

C19_OneStopPerChannel ==
    /\ [](/\ \A m \in Modules : \A j \in 1..LoopSlots :
                /\ loopTasks[m][j].sent <= 1
                /\ loopTasks[m][j].queue <= loopTasks[m][j].sent
                /\ loopTasks[m][j].queue < ChannelCapacity
          /\ cpc = "send" => (loopTasks[CurMod][cur.info].queue = 0
                                /\ loopTasks[CurMod][cur.info].sent = 0)
          /\ 1 < ChannelCapacity)
    /\ [][\A m \in Modules : \A j \in 1..LoopSlots :
            (loopTasks[m][j].state = "free" /\ loopTasks'[m][j].state # "free")
                => (loopTasks'[m][j].queue = 0 /\ loopTasks'[m][j].sent = 0)]_vars

\* cleanup has sent the stop signal and it is waiting in the channel of a
\* companion that is still running
C19_Witness ==
    /\ cpc = "awaitLoop"
    /\ loopTasks[CurMod][cur.info].queue = 1
    /\ loopTasks[CurMod][cur.info].sent = 1
    /\ loopTasks[CurMod][cur.info].state = "running"

====
